---------------------------- MODULE Spec2Model ----------------------------
(***************************************************************************)
(* Model of stackie::sstring<N> (src/src/stackie/sstring.hpp): a stack     *)
(* allocated string holding a char array s[N + 1] and nothing else.        *)
(*                                                                         *)
(* A char array is a sequence of bytes; C index i is sequence index i + 1  *)
(* (operator At).  Two instances "a" and "b" live side by side, each with  *)
(* its own capacity.                                                       *)
(*                                                                         *)
(* Spec     exercises one instance, "a", of every capacity up to MaxCap,   *)
(*          with every source of up to MaxLen chars ("b" is an sstring<0>  *)
(*          that is only copied from).                                     *)
(* SpecPair exercises both instances, of every pair of capacities up to    *)
(*          PairCap, so that copies between instances of equal and of      *)
(*          different capacity happen in both directions; its other        *)
(*          sources have up to PairLen chars, each '\0' or one text char.  *)
(***************************************************************************)
EXTENDS Integers, Naturals, Sequences, FiniteSets, TLC

VARIABLES
    cap,    \* cap[o]: the template parameter N of instance o
    s,      \* s[o]: the member char s[N + 1] of instance o
    last    \* the last operation performed: its source, its destination,
            \* and the indices it read and wrote

vars == <<cap, s, last>>

\* ------------------------------------------------------------- bounds --
\* Spec: largest capacity N instantiated.
MaxCap == 3
\* Spec: largest number of chars in a char pointer / std::string source;
\* char arrays have up to MaxLen + 1 elements (room for the terminator).
MaxLen == 3
\* SpecPair: largest capacity instantiated.
PairCap == 3
\* SpecPair: largest number of elements of a source.
PairLen == 2

\* ---------------------------------------------------------- constants --
\* '\0'
NUL == 0

\* The values a char takes: the terminator and two text characters.
Char == {1, 2}
Byte == {NUL} \cup Char
\* The values an uninitialised char is read as: the terminator, or a char
\* that is not the terminator.
Plain == {NUL, 1}
\* The two instances.
Obj == {"a", "b"}

Min(x, y) == IF x <= y THEN x ELSE y

\* All char arrays of lo..hi elements over the chars of C.
ArraysBetween(C, lo, hi) == UNION {[1..n -> C] : n \in lo..hi}

\* mem[i] in C.
At(mem, i) == mem[i + 1]

\* The C indices of mem holding the terminator.
NulsOf(mem) == {i \in 0..(Len(mem) - 1) : At(mem, i) = NUL}
HasNul(mem) == NulsOf(mem) # {}

\* std::strlen: the index of the first terminator.  Without a terminator
\* in the array the scan runs off its end: the result is then no index of
\* the array, reported here as Len(mem).
strlen(mem) ==
    IF HasNul(mem)
    THEN CHOOSE i \in NulsOf(mem) : \A j \in NulsOf(mem) : i <= j
    ELSE Len(mem)

\* The chars before the first terminator (what operator<< prints).
Text(mem) == SubSeq(mem, 1, strlen(mem))

\* ------------------------------------------------------ copy primitive --
\* details::copy_n_impl<N>(src, src_len, dst) with the terminator write
\* left out.
copy_n_impl_NoTerminator(N, src, src_len, dst) ==
    LET min_len == Min(src_len, N)
    IN  [buf |-> [i \in 1..Len(dst) |->
                    IF i - 1 < min_len THEN At(src, i - 1) ELSE dst[i]],
         rd  |-> 0..(min_len - 1),
         wr  |-> 0..(min_len - 1)]

\* details::copy_n_impl<N>(src, src_len, dst) copying src_len chars, not
\* min(src_len, N).
copy_n_impl_NoMin(N, src, src_len, dst) ==
    LET min_len == src_len
    IN  [buf |-> [i \in 1..Len(dst) |->
                    IF i - 1 < min_len THEN At(src, i - 1)
                    ELSE IF i - 1 = min_len THEN NUL
                    ELSE dst[i]],
         rd  |-> 0..(min_len - 1),
         wr  |-> 0..min_len]

\* details::copy_n_impl<N>(src, src_len, dst) writing the terminator at
\* dst[N], not at dst[min_len].
copy_n_impl_TerminatorAtN(N, src, src_len, dst) ==
    LET min_len == Min(src_len, N)
    IN  [buf |-> [i \in 1..Len(dst) |->
                    IF i - 1 < min_len THEN At(src, i - 1)
                    ELSE IF i - 1 = N THEN NUL
                    ELSE dst[i]],
         rd  |-> 0..(min_len - 1),
         wr  |-> 0..(min_len - 1) \cup {N}]

\* details::copy_n_impl<N>(src, src_len, dst):
\*     const auto min_len = std::min(src_len, N);
\*     std::copy_n(src, min_len, dst);
\*     dst[min_len] = '\0';
\* buf is dst afterwards, rd the indices of src read, wr the indices of
\* dst written.
copy_n_impl(N, src, src_len, dst) ==
    LET min_len == Min(src_len, N)
    IN  [buf |-> [i \in 1..Len(dst) |->
                    IF i - 1 < min_len THEN At(src, i - 1)
                    ELSE IF i - 1 = min_len THEN NUL
                    ELSE dst[i]],
         rd  |-> 0..(min_len - 1),
         wr  |-> 0..min_len]

\* ------------------------------------------------------------ accessors --
\* sstring<N>::c_str()
c_str(o) == s[o]
\* sstring<N>::capacity()
capacity(o) == cap[o]
\* sstring<N>::length()
length(o) == strlen(s[o])

\* ----------------------------------------------------------- operations --
\* The values of a char s[N + 1] nobody has written yet: any.
Indeterminate(N) == [1..(N + 1) -> Plain]

\* sstring<N>::sstring() leaving s[0] as it was.
DefaultBuffer_NoWrite(N, mem) == mem

\* sstring<N>::sstring(): s[0] = '\0', the other chars stay indeterminate.
DefaultBuffer(N, mem) == [mem EXCEPT ![1] = NUL]

\* One buffer shared by all instances.
Store_Shared(d, buf) == [o \in Obj |-> IF Len(s[o]) = Len(buf) THEN buf ELSE s[o]]

\* The instance d holds buf; every instance owns its array.
Store(d, buf) == [s EXCEPT ![d] = buf]

\* A std::string holding rhs: c_str() is its chars followed by '\0'.
string_c_str(rhs) == Append(rhs, NUL)

\* template <size_t M> operator=(const sstring<M> &rhs):
\*     details::copy_n_impl<N>(rhs.c_str(), M, s);
operator_assign_sstring(N, dst, M, rhs) ==
    copy_n_impl(N, rhs, M, dst)

\* The implicitly-defined copy assignment / copy constructor of
\* sstring<N>: the class declares neither, and a member template is never
\* a copy operation, so they exist and copy the member s[N + 1] whole.
implicit_copy(N, dst, rhs) ==
    [buf |-> rhs, rd |-> 0..N, wr |-> 0..N]

\* dst = rhs for an sstring<M> rhs: overload resolution takes the
\* implicit copy operation when rhs has the type of dst (M = N, a
\* non-template beats the template), and the template otherwise.
assign_from_sstring(N, dst, M, rhs) ==
    IF M = N THEN implicit_copy(N, dst, rhs)
             ELSE operator_assign_sstring(N, dst, M, rhs)

\* template <size_t M> operator=(const char (&rhs)[M]):
\*     details::copy_n_impl<N>(rhs, M, s);
operator_assign_array(N, dst, rhs) ==
    copy_n_impl(N, rhs, Len(rhs), dst)

\* operator=(const char rhs[]):
\*     details::copy_n_impl<N>(rhs, std::strlen(rhs), s);
operator_assign_ptr(N, dst, rhs) ==
    copy_n_impl(N, rhs, strlen(rhs), dst)

\* operator=(const std::string &rhs):
\*     details::copy_n_impl<N>(rhs.c_str(), rhs.length(), s);
operator_assign_string(N, dst, rhs) ==
    copy_n_impl(N, string_c_str(rhs), Len(rhs), dst)

\* The sources Spec gives an operation.
\* char arrays char[M], 1 <= M <= MaxLen + 1, of any content.
CharArrays == ArraysBetween(Byte, 1, MaxLen + 1)
\* What a const char * points to: a text followed by its terminator.
CharPtrs == {Append(t, NUL) : t \in ArraysBetween(Char, 0, MaxLen)}
\* std::string values: any chars, '\0' among them.
Strings == ArraysBetween(Byte, 0, MaxLen)

\* The sources SpecPair gives an operation.
PairArrays == ArraysBetween(Plain, 1, PairLen)
PairPtrs == {Append(t, NUL) : t \in ArraysBetween({1}, 0, PairLen)}
PairStrings == ArraysBetween(Plain, 0, PairLen)

\* What an operation leaves in `last`.
Done(kind, ctor, d, from, src, count, bound, r) ==
    [kind |-> kind, ctor |-> ctor, dst |-> d, from |-> from, src |-> src,
     count |-> count, bound |-> bound, rd |-> r.rd, wr |-> r.wr]

\* Whether an instance is declared and its constructor body has yet to
\* run: then its member s holds indeterminate chars.
Raw(d) == last.kind = "declare" /\ last.dst = d
NoneRaw == last.kind # "declare"

\* A new instance starts its lifetime in the storage of d: the member s is
\* not initialised by any constructor's initialiser list.  One of the
\* constructors runs next.
Declare(d) ==
    /\ NoneRaw
    /\ \E mem \in Indeterminate(cap[d]) : s' = Store(d, mem)
    /\ last' = Done("declare", TRUE, d, "none", <<>>, 0, 0, [rd |-> {}, wr |-> {}])
    /\ UNCHANGED cap

\* sstring<N> d;
DefaultCtor(d) ==
    /\ Raw(d)
    /\ s' = Store(d, DefaultBuffer(cap[d], s[d]))
    /\ last' = Done("default", TRUE, d, "none", <<>>, 0, 0,
                    [rd |-> {}, wr |-> {0}])
    /\ UNCHANGED cap

\* The kind of a copy from an sstring<M> into an sstring<N>.
SStringKind(N, M) == IF M = N THEN "copy" ELSE "sstring"

\* d = r; for instances d and r (d = d included), and, with ctor, the
\* constructor sstring<N> d = r; whose body is *this = rhs.
FromSString(d, r, ctor) ==
    LET res == assign_from_sstring(cap[d], s[d], cap[r], c_str(r))
    IN  /\ s' = Store(d, res.buf)
        /\ last' = Done(SStringKind(cap[d], cap[r]), ctor, d, r, s[r],
                        cap[r], cap[r] + 1, res)
        /\ UNCHANGED cap

\* d = rhs; for a char array rhs of Len(rhs) elements; with ctor,
\* sstring<N> d = rhs;
FromArray(d, rhs, ctor) ==
    LET res == operator_assign_array(cap[d], s[d], rhs)
    IN  /\ s' = Store(d, res.buf)
        /\ last' = Done("array", ctor, d, "none", rhs, Len(rhs), Len(rhs), res)
        /\ UNCHANGED cap

\* d = rhs; for a NUL-terminated const char *rhs; with ctor,
\* sstring<N> d = rhs;
FromPtr(d, rhs, ctor) ==
    LET res == operator_assign_ptr(cap[d], s[d], rhs)
    IN  /\ s' = Store(d, res.buf)
        /\ last' = Done("ptr", ctor, d, "none", rhs, strlen(rhs), strlen(rhs), res)
        /\ UNCHANGED cap

\* d = rhs; for a std::string rhs; with ctor, sstring<N> d = rhs;
FromString(d, rhs, ctor) ==
    LET res == operator_assign_string(cap[d], s[d], rhs)
    IN  /\ s' = Store(d, res.buf)
        /\ last' = Done("string", ctor, d, "none", rhs, Len(rhs), Len(rhs), res)
        /\ UNCHANGED cap

AssignSString(d, r) == NoneRaw /\ FromSString(d, r, FALSE)
CtorSString(d, r)   == Raw(d) /\ r # d /\ FromSString(d, r, TRUE)
AssignArray(d, rhs) == NoneRaw /\ FromArray(d, rhs, FALSE)
CtorArray(d, rhs)   == Raw(d) /\ FromArray(d, rhs, TRUE)
AssignPtr(d, rhs)   == NoneRaw /\ FromPtr(d, rhs, FALSE)
CtorPtr(d, rhs)     == Raw(d) /\ FromPtr(d, rhs, TRUE)
AssignString(d, rhs) == NoneRaw /\ FromString(d, rhs, FALSE)
CtorString(d, rhs)   == Raw(d) /\ FromString(d, rhs, TRUE)

\* The operations on the instances of D, with sources from A (char
\* arrays), P (char pointers), S (std::strings) and the instances.
Step(D, A, P, S) ==
    \/ \E d \in D : Declare(d)
    \/ \E d \in D : DefaultCtor(d)
    \/ \E d \in D, r \in Obj : AssignSString(d, r)
    \/ \E d \in D, r \in Obj : CtorSString(d, r)
    \/ \E d \in D, rhs \in A : AssignArray(d, rhs)
    \/ \E d \in D, rhs \in A : CtorArray(d, rhs)
    \/ \E d \in D, rhs \in P : AssignPtr(d, rhs)
    \/ \E d \in D, rhs \in P : CtorPtr(d, rhs)
    \/ \E d \in D, rhs \in S : AssignString(d, rhs)
    \/ \E d \in D, rhs \in S : CtorString(d, rhs)

\* Both instances exist, default constructed ("a" last), with the
\* capacities C allows.
InitWith(C) ==
    /\ cap \in C
    /\ \E ma \in Indeterminate(cap["a"]), mb \in Indeterminate(cap["b"]) :
          s = [o \in Obj |-> IF o = "a" THEN DefaultBuffer(cap["a"], ma)
                                        ELSE DefaultBuffer(cap["b"], mb)]
    /\ last = Done("default", TRUE, "a", "none", <<>>, 0, 0,
                    [rd |-> {}, wr |-> {0}])

Init == InitWith({c \in [Obj -> 0..MaxCap] : c["b"] = 0})
Next == Step({"a"}, CharArrays, CharPtrs, Strings)
Spec == Init /\ [][Next]_vars

InitPair == InitWith([Obj -> 0..PairCap])
NextPair == Step(Obj, PairArrays, PairPtrs, PairStrings)
SpecPair == InitPair /\ [][NextPair]_vars

\* ---------------------------------------------------------------------
\* Properties
\* ---------------------------------------------------------------------
\* The last operation's destination and its capacity.
Dst == last.dst
DstN == capacity(last.dst)
\* The last operation took a char array, a char pointer or a std::string.
FromText == last.kind \in {"array", "ptr", "string"}
\* The last operation copied from an sstring<M>.
FromInstance == last.kind \in {"sstring", "copy"}
\* len(S) of the last source: the chars before the terminator of a char
\* array or char pointer, length() of a std::string.
SourceLen == IF last.kind = "string" THEN Len(last.src) ELSE strlen(last.src)
\* The first n chars of mem.
Prefix(mem, n) == SubSeq(mem, 1, Min(n, Len(mem)))
\* Whether buf and src agree on the C indices below n.
SameBelow(buf, src, n) == \A i \in 0..(n - 1) : At(buf, i) = At(src, i)

\* C1: every constructed sstring<N> holds a terminator at an index <= N,
\* so length(), the index of the first one, is <= capacity() == N and
\* s[length()] is the terminator.
C1_TerminatorWithinCapacity ==
    \A o \in Obj :
        ~Raw(o) =>
            /\ HasNul(s[o])
            /\ length(o) <= capacity(o)
            /\ At(s[o], length(o)) = NUL

\* C1 witness: a source longer than the capacity was assigned, and the
\* destination is full: its only terminator is s[N].
C1_Witness ==
    /\ FromText /\ ~last.ctor
    /\ last.count > DstN /\ DstN >= 1
    /\ NulsOf(s[Dst]) = {DstN}

\* C2 as stated: a source with len(S) > N leaves length() = N, the first N
\* chars of S in s[0..N-1] and the terminator in s[N].
C2_Truncation_AsStated ==
    (FromText /\ SourceLen > DstN) =>
        /\ length(Dst) = DstN
        /\ SameBelow(s[Dst], last.src, DstN)
        /\ At(s[Dst], DstN) = NUL

\* C2 amended: a source with len(S) > N leaves the first N chars of S in
\* s[0..N-1] and the terminator in s[N]; length() is N when none of these
\* N chars is the terminator, and the index of the first that is otherwise
\* (a std::string may hold one).
C2_Truncation ==
    (FromText /\ SourceLen > DstN) =>
        /\ SameBelow(s[Dst], last.src, DstN)
        /\ At(s[Dst], DstN) = NUL
        /\ length(Dst) = strlen(Append(Prefix(last.src, DstN), NUL))
        /\ (~HasNul(Prefix(last.src, DstN)) => length(Dst) = DstN)

\* C2 witness: a source longer than N >= 2 was truncated, and the
\* destination holds N chars, two of them different, afterwards.
C2_Witness ==
    /\ FromText /\ SourceLen > DstN /\ DstN >= 2
    /\ length(Dst) = DstN
    /\ At(s[Dst], 0) # At(s[Dst], 1)

\* C3 as stated: a char pointer or std::string source with len(S) <= N
\* leaves length() = len(S), S in s[0..len(S)-1] and the terminator in
\* s[len(S)].
C3_RoundTrip_AsStated ==
    (last.kind \in {"ptr", "string"} /\ SourceLen <= DstN) =>
        /\ length(Dst) = SourceLen
        /\ SameBelow(s[Dst], last.src, SourceLen)
        /\ At(s[Dst], SourceLen) = NUL

\* C3 amended: a char pointer or std::string source with len(S) <= N
\* leaves S in s[0..len(S)-1] and the terminator in s[len(S)]; length() is
\* len(S) when S holds no terminator, and the index of its first
\* terminator otherwise (a std::string may hold one).
C3_RoundTrip ==
    (last.kind \in {"ptr", "string"} /\ SourceLen <= DstN) =>
        /\ SameBelow(s[Dst], last.src, SourceLen)
        /\ At(s[Dst], SourceLen) = NUL
        /\ length(Dst) = strlen(Append(Prefix(last.src, SourceLen), NUL))
        /\ (~HasNul(Prefix(last.src, SourceLen)) => length(Dst) = SourceLen)

\* C3 witness: a text of exactly N >= 2 chars was assigned over a buffer,
\* and all of it is there.
C3_Witness ==
    /\ last.kind \in {"ptr", "string"} /\ ~last.ctor
    /\ SourceLen = DstN /\ DstN >= 2
    /\ length(Dst) = DstN
    /\ At(s[Dst], 0) # At(s[Dst], 1)

\* C4 as stated: a copy from an sstring<M> (another instance) leaves the
\* source's chars in s[0..min(N,M)-1] and the terminator in s[min(N, M)],
\* as copying exactly min(N, M) chars and writing the terminator does.
C4_CrossCapacityCopy_AsStated ==
    (FromInstance /\ last.from # Dst) =>
        LET m == Min(DstN, last.count)
        IN  /\ SameBelow(s[Dst], last.src, m)
            /\ At(s[Dst], m) = NUL

\* C5: a default-constructed sstring<N> has length() = 0, s[0] the
\* terminator, and capacity() = N, the size of s less one.
C5_DefaultEmpty ==
    last.kind = "default" =>
        /\ length(Dst) = 0
        /\ At(s[Dst], 0) = NUL
        /\ capacity(Dst) = Len(s[Dst]) - 1

\* C5 witness: the default constructor ran on a member whose chars were
\* all something else than the terminator.
C5_Witness ==
    /\ last.kind = "default" /\ DstN >= 2
    /\ NulsOf(s[Dst]) = {0}

\* The texts without a terminator.
Texts == ArraysBetween(Char, 0, MaxLen)

\* C6: assigning a text T without terminator to an sstring<N> as a char
\* array of Len(T) + 1 elements, as a char pointer and as a std::string
\* gives the same length() = min(N, Len(T)), the same chars before the
\* terminator, and a terminator at s[length()]; and the instance the last
\* operation assigned T to, in any of the three shapes, holds just that.
C6_ShapeEquivalence ==
    \A T \in Texts :
        LET N == DstN
            n == Min(N, Len(T))
            A == operator_assign_array(N, s[Dst], Append(T, NUL)).buf
            P == operator_assign_ptr(N, s[Dst], Append(T, NUL)).buf
            S == operator_assign_string(N, s[Dst], T).buf
        IN  /\ strlen(A) = n /\ strlen(P) = n /\ strlen(S) = n
            /\ Text(A) = Prefix(T, n) /\ Text(P) = Text(A) /\ Text(S) = Text(A)
            /\ At(A, n) = NUL /\ At(P, n) = NUL /\ At(S, n) = NUL
            /\ ( /\ FromText
                 /\ last.src = (IF last.kind = "string" THEN T ELSE Append(T, NUL))
                 => Text(s[Dst]) = Text(A) /\ length(Dst) = n )

\* C6 witness: a text of two different chars, longer than N >= 2, was
\* assigned as a char pointer.
C6_Witness ==
    /\ last.kind = "ptr" /\ ~last.ctor
    /\ SourceLen > DstN /\ DstN >= 2
    /\ At(last.src, 0) # At(last.src, 1)
    /\ length(Dst) = DstN

C8_OneWayCopy ==
    [][ /\ \A o \in Obj : o # last'.dst => s'[o] = s[o]
        /\ (last'.kind \in {"sstring", "copy"} /\ last'.from # last'.dst)
              => s'[last'.from] = last'.src
      ]_vars

\* C8 witness: a copy from a larger instance was truncated, and the
\* source still holds its longer text.
C8_Witness ==
    /\ last.kind = "sstring" /\ last.from # Dst
    /\ DstN >= 1 /\ length(Dst) = DstN
    /\ length(last.from) > DstN
    /\ s[last.from] = last.src

\* What a copy of count chars of src into an sstring<N> holds before its
\* terminator.
Logical(src, count, N) == Text(Append(Prefix(src, Min(N, count)), NUL))

\* C9: after an assignment (or a converting constructor), length() and the
\* chars before the terminator are those of the first min(N, count) chars
\* of the source up to its first terminator, whatever s held before.
C9_FullReplacement ==
    (FromText \/ FromInstance) =>
        /\ Text(s[Dst]) = Logical(last.src, last.count, DstN)
        /\ length(Dst) = Len(Logical(last.src, last.count, DstN))

\* C9 witness: a text of one char was assigned over a longer one, whose
\* char 2 is still in s after the new terminator.
C9_Witness ==
    /\ last.kind \in {"ptr", "string"} /\ ~last.ctor
    /\ DstN >= 2 /\ length(Dst) = 1 /\ SourceLen = 1
    /\ At(s[Dst], 2) = 2

\* C10: a copy from an sstring<M> leaves length() = min(N, length of the
\* source) and the source's first chars before the terminator, whatever
\* lies after the source's terminator.
C10_CopyLogicalContent ==
    FromInstance =>
        LET n == Min(DstN, strlen(last.src))
        IN  /\ length(Dst) = n
            /\ Text(s[Dst]) = Prefix(last.src, n)

\* C10 witness: the template copied a char that is not the terminator
\* from beyond the source's terminator.
C10_Witness ==
    /\ last.kind = "sstring" /\ last.from # Dst
    /\ \E i \in last.rd : i > strlen(last.src) /\ At(last.src, i) # NUL
                          /\ At(s[Dst], i) = At(last.src, i)

=============================================================================
